---- MODULE Spec2Model ----
(***************************************************************************)
(* Chess Thought Process Analyzer (src/chess_thought_analyzer.py).         *)
(*                                                                         *)
(* The model has seven parts that share one set of variables:              *)
(*   - the Tk handlers of ChessThoughtAnalyzer (navigation, F5, the        *)
(*     simplify toggle), the background threads started by                 *)
(*     analyze_current_position and the callbacks they hand to root.after  *)
(*     (specification Spec, over a loaded game);                           *)
(*   - start_engine, stop_engine and configure_engine next to a running    *)
(*     thread (specification SpecLifecycle);                               *)
(*   - analyze_current_position over every answer the rules-engine backed  *)
(*     helpers can give for one position (specification SpecPipeline);     *)
(*   - _run_engine_analysis and _update_analysis_output over every answer  *)
(*     the UCI engine can give for one position (specification            *)
(*     SpecEngine);                                                        *)
(*   - the calculation line built from every principal variation          *)
(*     (specification SpecLines);                                          *)
(*   - find_threats and generate_responses over Positions made of moves    *)
(*     of every kind (specification SpecPosition);                         *)
(*   - the two phase labels over every piece count and move number         *)
(*     (specification SpecPhase).                                          *)
(*                                                                         *)
(* A SAN string is modelled by the index of its legal move in              *)
(* board.legal_moves; a Position by the index of its game node.            *)
(***************************************************************************)
EXTENDS Integers, Sequences, FiniteSets, TLC

\* ---------------------------------------------------------------- bounds
NumSAN == 2         \* distinct SAN strings the helpers may answer with
MaxTotal == 3       \* entries the environment puts into the helper answers
GameLen == 2        \* moves in the mainline of the loaded game
MaxTasks == 2       \* reports written, and threads started, in one behaviour
MaxTasksLifecycle == 1  \* the same, where the engine is also reconfigured
MaxProcs == 2       \* engine processes started in one behaviour
MaxMate == 1        \* longest forced mate the engine announces, in moves
MaxPv == 6          \* longest principal variation the engine returns, in plies
MaxMoves == 2       \* moves of a Position that are of any kind
MaxLegal == 6       \* moves of a Position, the further ones of the last kind
MaxBefore == 20     \* half-moves played before the stretch of the game shown

VARIABLES
    game,               \* self.game: NoGame, or the loaded game: which side
                        \* is to move in its root Position
    current_node,       \* self.current_node: NoNode or a node index 0..GameLen
    board,              \* self.board: the Position (node index) shown
    simplify_analysis,  \* self.simplify_analysis
    engine,             \* self.engine: NoEngine or the process it refers to
    procs,              \* engine processes running
    started,            \* engine processes started so far
    thought_output,     \* self.thought_output: the report, a sequence of lines
    status_var,         \* self.status_var
    tasks,              \* the threads started on _run_engine_analysis
    after_queue,        \* callbacks handed to root.after, not yet run
    calls,              \* helpers called by the last analyze_current_position
    reports,            \* invocations of analyze_current_position that wrote
                        \* a report (steps 1 to 6)
    answers,            \* what the rules-engine backed helpers answer for
                        \* self.board
    move_list,          \* self.move_list has rows (a game was loaded)
    running,            \* root.mainloop() has not returned
    mode                \* the environment: "game" and "lifecycle" (a sample
                        \* game and a sample engine), "helpers" (any helper
                        \* answers), "engine" (any engine answers),
                        \* "lines" (any principal variation), "position"
                        \* (find_threats and generate_responses on any
                        \* Position), "phase" (any piece count and move
                        \* number)

vars == <<game, current_node, board, simplify_analysis, engine, procs, started,
          thought_output, status_var, tasks, after_queue, calls, reports,
          answers, move_list, running, mode>>

NoNode == 0 - 1
NoGame == "None"
NoEngine == 0
NoSAN == 0
SANs == 1..NumSAN

\* ------------------------------------------------------ sequence helpers
RECURSIVE Repeat(_, _)
Repeat(s, n) == IF n = 0 THEN <<>> ELSE s \o Repeat(s, n - 1)

Range(s) == {s[i] : i \in 1..Len(s)}

Contains(s, x) == \E i \in 1..Len(s) : s[i] = x

NoDuplicates(s) == \A i, j \in 1..Len(s) : s[i] = s[j] => i = j

FirstIndex(s, x) == CHOOSE i \in 1..Len(s) : s[i] = x /\ \A j \in 1..(i - 1) : s[j] # x

\* ------------------------------------------------------------ the report
\* One inserted piece of text: what it is, the move it names (NoSAN if none)
\* and, for text inserted by _update_analysis_output, the score it shows and
\* the Position the verification thread was started for (NoNode otherwise).
\* Lines 1973, 1990, 2003 and 2028: the text shown for a score, the score in
\* pawns with two decimals or "M" followed by score // 10000.
EvalStr(score) ==
    IF (IF score < 0 THEN 0 - score ELSE score) < 10000
    THEN [kind |-> "decimal", n |-> score]
    ELSE [kind |-> "M", n |-> score \div 10000]

NoEvalStr == [kind |-> "none", n |-> 0]

\* The inserted texts that show a score.
ScoredTags == {"promising", "eliminated", "Actual move played (Evaluation)",
               "Evaluation"}

Line(tag, san) ==
    [tag |-> tag, san |-> san, score |-> 0, for |-> NoNode, eval_str |-> NoEvalStr,
     line |-> <<>>]

EngineLine(tag, san, score, for) ==
    [tag |-> tag, san |-> san, score |-> score, for |-> for,
     eval_str |-> IF tag \in ScoredTags THEN EvalStr(score) ELSE NoEvalStr,
     line |-> <<>>]

\* Lines 1981-1985 and 2014-2018: " -> ".join(line[1:]) after the move.
JoinedLine(tag, san, line, for) ==
    [EngineLine(tag, san, 0, for) EXCEPT !.line = Tail(line)]

Bullets(tag, moves) == [i \in 1..Len(moves) |-> Line(tag, moves[i])]

HasLine(out, tag) == \E i \in 1..Len(out) : out[i].tag = tag

\* ------------------------------------------------------------ find_threats
\* A threat of the list find_threats returns: its text without the names of
\* pieces and squares, and the SAN of the first move it names (NoSAN if none).
Threat(text, san) == [text |-> text, san |-> san]

CheckText == "You are in check by"
CheckMateText == "You are in check by (could lead to checkmate)"
UndefendedText == "Undefended piece is under attack"
UnderdefendedText == "Underdefended piece is under attack"
LowerValueText == "Piece attacked by lower value piece"
ForkText == "Knight fork threat from"
SkewerText == "Potential skewer from"
MateText == "Potential checkmate in 3 starting with"
TacticText == "Potential winning tactic starting with"

\* `word in threat.lower()` for the words generate_responses and find_threats
\* search the texts for.
Mentions(text, word) ==
    CASE word = "check" -> text \in {CheckText, CheckMateText, MateText}
      [] word = "checkmate" -> text \in {CheckMateText, MateText}
      [] word = "under attack" -> text \in {UndefendedText, UnderdefendedText}
      [] word = "fork" -> text = ForkText
      [] OTHER -> FALSE

\* A move of the Position: what the code asks of it. exposes_king: it is
\* pseudo-legal but leaves the mover's own king in check, so it is not in
\* board.legal_moves. capture: "no", "attacker" (it captures on the square of a
\* piece that gives check, attacks the threatened piece or forks) or "other".
\* from_threatened: it moves the threatened or forked piece. blocks, counter:
\* the tests of lines 1139-1157. replies: for each legal reply of the opponent
\* to a checking move, whether a mate follows it (lines 977-993).
\* wins_material: the tests of lines 1016-1059 for a checking move.
Move(san, class) == [class EXCEPT !.san = san]

Quiet ==
    [san |-> NoSAN, exposes_king |-> FALSE, gives_check |-> FALSE, capture |-> "no",
     king |-> FALSE, from_threatened |-> FALSE, blocks |-> FALSE, counter |-> FALSE,
     replies |-> <<>>, wins_material |-> FALSE]

\* The kinds of moves the Positions of the "position" environment are made of.
MoveClasses ==
    {[Quiet EXCEPT !.exposes_king = TRUE],
     [Quiet EXCEPT !.king = TRUE],
     [Quiet EXCEPT !.king = TRUE, !.capture = "attacker"],
     [Quiet EXCEPT !.capture = "attacker"],
     [Quiet EXCEPT !.capture = "other"],
     [Quiet EXCEPT !.blocks = TRUE],
     [Quiet EXCEPT !.from_threatened = TRUE, !.counter = TRUE],
     [Quiet EXCEPT !.gives_check = TRUE],
     [Quiet EXCEPT !.gives_check = TRUE, !.replies = <<TRUE>>],
     [Quiet EXCEPT !.gives_check = TRUE, !.replies = <<FALSE>>, !.wins_material = TRUE],
     [Quiet EXCEPT !.gives_check = TRUE, !.replies = <<TRUE, FALSE>>],
     [Quiet EXCEPT !.gives_check = TRUE, !.replies = <<TRUE, TRUE>>],
     [Quiet EXCEPT !.gives_check = TRUE, !.capture = "other", !.replies = <<FALSE>>]}

\* board.legal_moves in enumeration order.
legal_moves(moves) == SelectSeq(moves, LAMBDA m : ~m.exposes_king)

\* Lines 845-866: the Check record.
CheckThreats(a) ==
    IF a.in_check = "no" THEN <<>>
    ELSE <<Threat(IF a.in_check = "could lead to checkmate"
                  THEN CheckMateText ELSE CheckText, NoSAN)>>

\* Lines 868-952: the records of the loops over the squares, which the
\* Position gives in detection order.
SquareThreats(a) ==
    [i \in 1..Len(a.hanging) |-> Threat(a.hanging[i], NoSAN)]
    \o [i \in 1..a.forks |-> Threat(ForkText, NoSAN)]
    \o [i \in 1..a.skewers |-> Threat(SkewerText, NoSAN)]

\* A variant without the test of board_after_move1.is_check().
NoEscape(move1) == \A r \in 1..Len(move1.replies) : move1.replies[r]

\* Lines 970-993: board_after_move1.is_check() and no_escape for move1.
ForcesMate(move1) ==
    move1.gives_check /\ \A r \in 1..Len(move1.replies) : move1.replies[r]

\* A variant of the loop that goes on after a forced mate is found.
RECURSIVE ScanAll(_, _)
ScanAll(legal, i) ==
    IF i > Len(legal) THEN [threats |-> <<>>, examined |-> Len(legal)]
    ELSE [threats |-> (IF ForcesMate(legal[i])
                       THEN <<Threat(MateText, legal[i].san)>> ELSE <<>>)
                      \o ScanAll(legal, i + 1).threats,
          examined |-> Len(legal)]

\* Lines 970-1003: the loop over the first moves, from move number i on;
\* examined: the first moves the loop has taken up.
RECURSIVE ForcedMateScan(_, _)
ForcedMateScan(legal, i) ==
    IF i > Len(legal) THEN [threats |-> <<>>, examined |-> Len(legal)]
    ELSE IF ForcesMate(legal[i])
         THEN [threats |-> <<Threat(MateText, legal[i].san)>>, examined |-> i]
         ELSE ForcedMateScan(legal, i + 1)

\* Lines 1005-1061: the loop over the first moves, given the threats so far.
RECURSIVE MaterialScan(_, _, _)
MaterialScan(legal, i, threats) ==
    IF i > Len(legal) THEN threats
    ELSE IF \E k \in 1..Len(threats) : Mentions(threats[k].text, "checkmate")
         THEN threats
    ELSE IF legal[i].gives_check /\ legal[i].wins_material
         THEN MaterialScan(legal, i + 1, Append(threats, Threat(TacticText, legal[i].san)))
         ELSE MaterialScan(legal, i + 1, threats)

\* A variant that searches for the forced mate before it walks the squares.
MateScanFirst(a) ==
    LET legal == legal_moves(a.moves)
    IN  MaterialScan(legal, 1,
                     CheckThreats(a) \o ForcedMateScan(legal, 1).threats
                     \o SquareThreats(a))

\* find_threats (lines 841-1063).
find_threats(a) ==
    LET legal == legal_moves(a.moves)
    IN  MaterialScan(legal, 1,
                     CheckThreats(a) \o SquareThreats(a)
                     \o ForcedMateScan(legal, 1).threats)

\* ------------------------------------------------------ generate_responses
\* Lines 1084-1186: the branch that handles a threat.
Branch(threat) ==
    IF Mentions(threat.text, "check") THEN "check"
    ELSE IF Mentions(threat.text, "under attack") THEN "under attack"
    ELSE IF Mentions(threat.text, "fork") THEN "fork"
    ELSE "none"

\* Does the branch append the move to the category. in_check: the king of the
\* side to move is attacked (line 1098 finds an attacker's square).
Appends(branch, in_check, move, category) ==
    CASE branch = "check" ->
            /\ ~move.gives_check
            /\ category =
                  (IF move.capture # "no"
                   THEN IF in_check /\ move.capture = "attacker"
                        THEN "Capture the attacker" ELSE "Counterattack"
                   ELSE IF move.king THEN "Move the attacked piece"
                   ELSE "Block the threat")
      [] branch = "under attack" ->
            IF move.from_threatened THEN category = "Move the attacked piece"
            ELSE IF move.capture # "no"
                 THEN category = (IF move.capture = "attacker"
                                  THEN "Capture the attacker" ELSE "Counterattack")
                 ELSE \/ move.blocks /\ category = "Block the threat"
                      \/ move.counter /\ category = "Counterattack"
      [] branch = "fork" ->
            \/ move.capture = "attacker" /\ category = "Capture the attacker"
            \/ move.from_threatened /\ category = "Move the attacked piece"
            \/ move.gives_check /\ category = "Counterattack"
      [] OTHER -> FALSE

\* A variant that runs over the pseudo-legal moves.
PseudoLegal(moves) == moves

\* Line 1075: the moves the loops of generate_responses run over.
ResponseMoves(moves) == legal_moves(moves)

\* The SANs one threat adds to a category, in the order of the moves.
RECURSIVE AppendedBy(_, _, _, _, _)
AppendedBy(threat, in_check, legal, i, category) ==
    IF i > Len(legal) THEN <<>>
    ELSE (IF Appends(Branch(threat), in_check, legal[i], category)
          THEN <<legal[i].san>> ELSE <<>>)
         \o AppendedBy(threat, in_check, legal, i + 1, category)

\* Lines 1084-1186: a category before line 1188, threat by threat.
RECURSIVE RawResponses(_, _, _, _, _)
RawResponses(threats, k, in_check, legal, category) ==
    IF k > Len(threats) THEN <<>>
    ELSE AppendedBy(threats[k], in_check, legal, 1, category)
         \o RawResponses(threats, k + 1, in_check, legal, category)

\* Line 1191: list(dict.fromkeys(moves)).
RECURSIVE FromKeys(_, _)
FromKeys(list, kept) ==
    IF list = <<>> THEN kept
    ELSE FromKeys(Tail(list),
                  IF \E i \in 1..Len(kept) : kept[i] = Head(list)
                  THEN kept ELSE Append(kept, Head(list)))

\* A variant that keeps every move.
NoLimit(list) == list

\* Line 1192: moves[:5].
Limit(list) == SubSeq(list, 1, IF Len(list) < 5 THEN Len(list) ELSE 5)

\* generate_responses (lines 1065-1193).
generate_responses(a, threats) ==
    [c \in {"Capture the attacker", "Block the threat", "Move the attacked piece",
            "Counterattack"} |->
        Limit(FromKeys(RawResponses(threats, 1, a.in_check # "no",
                                    ResponseMoves(a.moves), c), <<>>))]

\* ---------------------------------------------- analyze_current_position
Categories == <<"Capture the attacker", "Block the threat",
                "Move the attacked piece", "Counterattack">>

BucketOrder == <<"Threats Response", "Checks", "Captures", "Threats",
                 "Tactical Opportunities", "Strategic Improvements">>

\* Lines 576-582: for every category with moves, the bucket is extended with
\* the whole category once per move of the category.
RECURSIVE ThreatsResponse(_, _)
ThreatsResponse(responses, k) ==
    IF k > Len(Categories) THEN <<>>
    ELSE LET moves == responses[Categories[k]]
         IN  Repeat(moves, Len(moves)) \o ThreatsResponse(responses, k + 1)

RECURSIVE ResponseLines(_, _)
ResponseLines(responses, k) ==
    IF k > Len(Categories) THEN <<>>
    ELSE LET moves == responses[Categories[k]]
         IN  (IF moves # <<>>
              THEN <<Line(Categories[k], NoSAN)>> \o Bullets("response", moves)
              ELSE <<>>) \o ResponseLines(responses, k + 1)

\* Line 700: `threats` is by then the list of threat-creating moves of the CCT
\* sweep (rebound at line 640), not the result of find_threats (line 562).
StrategicSkipped(a, simplify) == a.cct # <<>> /\ simplify

\* The six buckets as they stand at line 717.
candidate_moves_collection(a, simplify) ==
    [b \in Range(BucketOrder) |->
        CASE b = "Threats Response" ->
                IF a.threats # <<>> THEN ThreatsResponse(a.responses, 1) ELSE <<>>
          [] b = "Checks" -> a.checks
          [] b = "Captures" -> a.captures
          [] b = "Threats" -> a.cct
          [] b = "Tactical Opportunities" ->
                IF a.signals THEN a.tactical ELSE <<>>
          [] b = "Strategic Improvements" ->
                IF StrategicSkipped(a, simplify) THEN <<>> ELSE a.strategic]

\* A variant of all_candidates that walks the buckets from the last to the
\* first.
RECURSIVE BucketsReversed(_, _)
BucketsReversed(collection, k) ==
    IF k > Len(BucketOrder) THEN <<>>
    ELSE BucketsReversed(collection, k + 1) \o collection[BucketOrder[k]]

\* Lines 718-720: the buckets concatenated in the dict's insertion order.
RECURSIVE all_candidates(_, _)
all_candidates(collection, k) ==
    IF k > Len(BucketOrder) THEN <<>>
    ELSE collection[BucketOrder[k]] \o all_candidates(collection, k + 1)

\* A variant of unique_candidates without the `seen` set.
KeepAll(all) == all

\* Lines 722-728: the loop over all_candidates with the `seen` set.
RECURSIVE UniqueLoop(_, _, _)
UniqueLoop(all, unique, seen) ==
    IF all = <<>> THEN unique
    ELSE IF Head(all) \in seen
         THEN UniqueLoop(Tail(all), unique, seen)
         ELSE UniqueLoop(Tail(all), Append(unique, Head(all)), seen \cup {Head(all)})

unique_candidates(all) == UniqueLoop(all, <<>>, {})

\* len(self.board.piece_map()): the two kings and up to thirty more pieces.
PieceCounts == 2..32

\* len(list(self.board.move_stack)) in the Position brd: the half-moves from
\* the root of the game. a.before is 0 except in the "phase" environment,
\* where the nodes of the sample game stand for a stretch of a longer game
\* and a.before half-moves were played before it.
MoveStackLen(a, brd) == a.before + brd

\* Line 592.
move_number(a, brd) == (MoveStackLen(a, brd) + 1) \div 2

\* Lines 594-599: the phase of the header of step 2.
HeaderPhase(num_pieces, number) ==
    IF num_pieces > 28 /\ number < 10 THEN "Opening"
    ELSE IF num_pieces < 12 THEN "Endgame"
    ELSE "Middlegame"

\* A variant in which 28 pieces are an Opening already.
AdvisorPhaseLoose(num_pieces) ==
    IF num_pieces >= 28 THEN "Opening"
    ELSE IF num_pieces < 12 THEN "Endgame"
    ELSE "Middlegame"

\* Lines 1456-1462: the phase of analyze_strategic_position.
AdvisorPhase(num_pieces) ==
    IF num_pieces > 28 THEN "Opening"
    ELSE IF num_pieces < 12 THEN "Endgame"
    ELSE "Middlegame"

\* Line 600: f"Current phase: {phase}".
CurrentPhase ==
    [Opening |-> "Current phase: Opening", Middlegame |-> "Current phase: Middlegame",
     Endgame |-> "Current phase: Endgame"]

\* The idea analyze_strategic_position always returns in a phase (lines 1479,
\* 1543, 1669).
PhaseIdea ==
    [Opening |-> "You have developed minor pieces",
     Middlegame |-> "Focus on piece coordination and active pieces",
     Endgame |-> "Activate your king in the endgame"]

\* The report of steps 1 to 6 in insertion order (lines 565-751). has_next:
\* the current node has a variation, whose move is actual_san.
Step1And2(a, brd) ==
    <<Line("STEP 1: Opponent Threats?", NoSAN)>>
    \o (IF a.threats # <<>>
        THEN <<Line("YES - Threats detected:", NoSAN)>>
             \o [i \in 1..Len(a.threats) |-> Line(a.threats[i].text, a.threats[i].san)]
             \o <<Line("STEP 2: Response Options", NoSAN)>>
             \o ResponseLines(a.responses, 1)
        ELSE <<Line("NO - No immediate threats", NoSAN),
               Line("STEP 2: Game Phase", NoSAN),
               Line(CurrentPhase[HeaderPhase(a.num_pieces, move_number(a, brd))],
                    NoSAN)>>)

Step3(a) ==
    <<Line("STEP 3: Tactical Signals or Targets?", NoSAN)>>
    \o (IF a.checks # <<>>
        THEN <<Line("Possible checks:", NoSAN)>> \o Bullets("check", a.checks)
        ELSE <<Line("No checks available", NoSAN)>>)
    \o (IF a.captures # <<>>
        THEN <<Line("Possible captures:", NoSAN)>> \o Bullets("capture", a.captures)
        ELSE <<Line("No captures available", NoSAN)>>)
    \o (IF a.cct # <<>>
        THEN <<Line("Moves creating threats:", NoSAN)>>
             \o Bullets("threat move", SubSeq(a.cct, 1, IF Len(a.cct) < 5 THEN Len(a.cct) ELSE 5))
        ELSE <<Line("No immediate threat-creating moves identified", NoSAN)>>)
    \o (IF a.signals
        THEN <<Line("Tactical opportunities identified:", NoSAN),
               Line("Tactical Ideas:", NoSAN)>>
             \o (IF a.tactical # <<>>
                 THEN <<Line("Tactical candidate moves:", NoSAN)>>
                      \o Bullets("tactical move", a.tactical)
                 ELSE <<>>)
        ELSE <<>>)

Step4(a, simplify) ==
    <<Line("STEP 4: Strategic Analysis", NoSAN)>>
    \o (IF StrategicSkipped(a, simplify)
        THEN <<Line("Strategic analysis skipped due to detected threats", NoSAN)>>
        ELSE <<Line(PhaseIdea[AdvisorPhase(a.num_pieces)], NoSAN)>>
             \o (IF a.strategic # <<>>
                 THEN <<Line("Strategic candidate moves:", NoSAN)>>
                      \o Bullets("strategic move", a.strategic)
                 ELSE <<>>))

Step5And6(unique, has_next, actual_san) ==
    IF unique # <<>>
    THEN <<Line("STEP 5: Candidate Move Selection", NoSAN)>>
         \o Bullets("candidate", unique)
         \o <<Line("STEP 6: Calculate Variations", NoSAN),
              Line("Calculating lines for each candidate move...", NoSAN)>>
         \o (IF has_next THEN <<Line("Actual move played:", actual_san)>> ELSE <<>>)
    ELSE <<Line("No candidate moves identified. Consider general principles.", NoSAN)>>

\* The helpers the handler calls, in call order (lines 562, 575, 677, 685, 706).
HelperCalls(a, simplify) ==
    <<"find_threats">>
    \o (IF a.threats # <<>> THEN <<"generate_responses">> ELSE <<>>)
    \o <<"find_tactical_signals">>
    \o (IF a.signals THEN <<"analyze_tactical_position">> ELSE <<>>)
    \o (IF StrategicSkipped(a, simplify) THEN <<>> ELSE <<"analyze_strategic_position">>)

\* ------------------------------------------------------- the loaded game
\* The mainline has nodes 0 (the root, self.game) to GameLen; node n + 1 is
\* variations[0] of node n and node n - 1 its parent.
HasVariation(node) == node < GameLen

\* board.turn in the Position of a node.
WhiteToMove(g, node) == (g = "white first") = (node % 2 = 0)

\* board.san(next_node.move) in the Position of the node (line 745).
ActualSAN(node) == NumSAN

\* The helper answers in the Positions of the sample game: threats and
\* candidate moves after odd plies, a quiet Position without candidates, in
\* which the first SAN is not legal, after even plies. `legal` is the set of
\* SAN strings board.parse_san accepts as legal moves.
NoAnswers ==
    [legal |-> SANs, threats |-> <<>>, responses |-> [c \in Range(Categories) |-> <<>>],
     checks |-> <<>>, captures |-> <<>>, cct |-> <<>>, signals |-> FALSE,
     tactical |-> <<>>, strategic |-> <<>>,
     in_check |-> "no", hanging |-> <<>>, forks |-> 0, skewers |-> 0, moves |-> <<>>,
     num_pieces |-> 32, before |-> 0]

GameAnswers(node) ==
    IF node % 2 = 1
    THEN [NoAnswers EXCEPT !.threats = <<Threat(CheckText, NoSAN)>>,
                           !.responses["Move the attacked piece"] = <<1>>,
                           !.captures = <<1>>]
    ELSE [NoAnswers EXCEPT !.legal = SANs \ {1}]

\* The helper answers in the Position the "position" environment has built:
\* find_threats and generate_responses on it, the checks and captures of the
\* CCT sweep (lines 609-629); no quiet move creates a threat, there are no
\* tactical signals and no strategic moves.
RECURSIVE SansOf(_)
SansOf(moves) ==
    IF moves = <<>> THEN <<>> ELSE <<Head(moves).san>> \o SansOf(Tail(moves))

PositionAnswers(a) ==
    LET legal == legal_moves(a.moves)
    IN  [a EXCEPT !.threats = find_threats(a),
                  !.responses = generate_responses(a, find_threats(a)),
                  !.legal = Range(SansOf(legal)),
                  !.checks = SansOf(SelectSeq(legal, LAMBDA m : m.gives_check)),
                  !.captures = SansOf(SelectSeq(legal, LAMBDA m : m.capture # "no"))]

\* The helper answers in the "engine" environment: those chosen at the start
\* for the Position the user analyses; in the root Position, which is not
\* analysed, the first SAN is not a legal move (board.parse_san raises or the
\* move is not in board.legal_moves, lines 1764-1769).
EngineModeAnswers(a, node) ==
    [a EXCEPT !.legal = IF node = 0 THEN SANs \ {1} ELSE SANs]

\* --------------------------------------------------- verification threads
NoResult == [ok |-> FALSE, score |-> 0, pv |-> FALSE]
NoAnalysis == [ok |-> FALSE, move |-> NoSAN, score |-> 0, tactics |-> <<>>]
NoAnswer == [ok |-> FALSE, score |-> 0]

\* Lines 748-754: the arguments and the locals of the thread, with what the
\* model records of it: the Position shown at its start (for), the lines of
\* the report written by then (written), the Position shown when it called
\* the engine for the root (root_board), the engine process its call of
\* engine.analyse addresses (using) and the engine's answer for the Position
\* after the played move (actual_answer). candidate_evaluations holds, per
\* evaluated candidate, <<SAN, stored score, the engine's answer>>, and
\* candidate_lines, per stored line, <<SAN, line>>.
NewTask(cands, next_node, brd, written) ==
    [pc |-> "start", candidate_moves |-> cands, next_node |-> next_node,
     i |-> 1, using |-> NoEngine, result |-> NoResult,
     candidate_evaluations |-> <<>>, candidate_lines |-> <<>>,
     actual_move_analysis |-> NoAnalysis,
     actual_answer |-> NoAnswer, root_board |-> NoNode, for |-> brd,
     written |-> {written[k].tag : k \in 1..Len(written)}]

\* A variant of the handler that starts no thread.
StartNoThread(t) == <<>>

\* One threading.Thread(...).start() at the end of the report's branch.
StartThreads(t) == <<t>>

\* The report inserted before the thread is started: all of it, the start is
\* the last statement before the widget is disabled (lines 748-756).
WrittenAtThreadStart(report) == report

\* analyze_current_position (lines 530-756) at `node` with `brd` shown: the
\* text of thought_output afterwards, the threads started, the helpers called.
Analysis(g, node, brd, a, simplify, out) ==
    IF node = NoNode
    THEN [out |-> out, spawn |-> <<>>, calls |-> <<>>, wrote |-> FALSE]
    ELSE IF g # NoGame /\ node = 0     \* self.current_node == self.game
    THEN [out |-> <<Line("Initial position. No analysis needed.", NoSAN)>>,
          spawn |-> <<>>, calls |-> <<>>, wrote |-> FALSE]
    ELSE IF brd = 0     \* board.move_stack is empty: no last move
    THEN [out |-> <<>>, spawn |-> <<>>, calls |-> <<>>, wrote |-> FALSE]
    ELSE LET unique == unique_candidates(
                           all_candidates(candidate_moves_collection(a, simplify), 1))
             report == Step1And2(a, brd) \o Step3(a) \o Step4(a, simplify)
                       \o Step5And6(unique, HasVariation(node), ActualSAN(node))
             thread == IF unique # <<>>
                       THEN NewTask(unique,
                                    IF HasVariation(node) THEN node + 1 ELSE NoNode,
                                    brd, WrittenAtThreadStart(report))
                       ELSE NewTask(<<>>, NoNode, brd, WrittenAtThreadStart(report))
         IN  [out |-> report, spawn |-> StartThreads(thread),
              calls |-> HelperCalls(a, simplify), wrote |-> TRUE]

\* ------------------------------------------------------------ the engine
\* score(mate_score=10000) of a forced mate in n moves for White.
MateScore(n) == 10000 - n

MateScores == {MateScore(n) : n \in 1..MaxMate}

\* Scores from White's point of view, result["score"].white().score(
\* mate_score=10000): centipawns, whose differences of 100, 101, 200, 201, 301
\* and 401 all occur, and forced mates.
Scores == {0 - 100, 0, 101, 301} \cup MateScores

\* What engine.analyse returns: the score and whether "pv" is there and not
\* empty. The sample engine of the "game" environment scores every root
\* Position 301 and every Position after a move 0.
\* What is_check, the captures and _has_immediate_threats say of the Position
\* after a ply of the principal variation (lines 1814-1817); "illegal": the ply
\* is no move of the Position, line_board.san raises.
PlyKinds == {"check", "capture", "threat", "quiet", "illegal"}

\* quick_result["pv"] as the kinds of its plies; NoPv: quick_result has no
\* "pv".
NoPv == <<"no pv">>

PVs == {NoPv} \cup UNION {[1..n -> PlyKinds] : n \in 0..MaxPv}

\* Lines 1792-1846: the calculation line of a candidate, entry by entry.
max_depth == 5

Entry(move, note) == [move |-> move, note |-> note]

\* A variant of the loop without the cap of max_depth plies.
RECURSIVE LineLoopNoCap(_, _, _, _)
LineLoopNoCap(plies, i, quiet_move_count, calc_line) ==
    IF i > Len(plies) THEN [raised |-> FALSE, calc_line |-> calc_line]
    ELSE IF plies[i] = "illegal" THEN [raised |-> TRUE, calc_line |-> calc_line]
    ELSE LET count == IF plies[i] = "quiet" THEN quiet_move_count + 1 ELSE 0
             line == Append(calc_line, Entry(NoSAN, plies[i]))
         IN  IF count >= 2
             THEN [raised |-> FALSE,
                   calc_line |-> Append(line, Entry(NoSAN, "(Position is now quiet)"))]
             ELSE LineLoopNoCap(plies, i + 1, count, line)

RECURSIVE LineLoop(_, _, _, _)
LineLoop(plies, i, quiet_move_count, calc_line) ==
    IF i > Len(plies) \/ i - 1 >= max_depth THEN [raised |-> FALSE, calc_line |-> calc_line]
    ELSE IF plies[i] = "illegal" THEN [raised |-> TRUE, calc_line |-> calc_line]
    ELSE LET count == IF plies[i] = "quiet" THEN quiet_move_count + 1 ELSE 0
             line == Append(calc_line, Entry(NoSAN, plies[i]))
         IN  IF count >= 2
             THEN [raised |-> FALSE,
                   calc_line |-> Append(line, Entry(NoSAN, "(Position is now quiet)"))]
             ELSE LineLoop(plies, i + 1, count, line)

\* A variant of the line that starts with the engine's first ply.
NoFirstEntry(move_san) == <<>>

\* Lines 1798-1799.
FirstEntry(move_san) == <<Entry(move_san, "candidate")>>

CalcLine(move_san, plies) == LineLoop(plies, 1, 0, FirstEntry(move_san))

\* candidate_lines after the answer for move_san: the line is stored under
\* move_san unless there is no "pv" or the loop raised (lines 1792, 1846-1848).
StoreLine(candidate_lines, move_san, plies) ==
    IF plies = NoPv \/ CalcLine(move_san, plies).raised THEN candidate_lines
    ELSE Append(candidate_lines, <<move_san, CalcLine(move_san, plies).calc_line>>)

\* The principal variations the engine returns after a candidate: any in the
\* "lines" environment, one quiet ply elsewhere.
CandidatePVs == IF mode = "lines" THEN PVs ELSE {<<"quiet">>}

EngineAnswers(pc) ==
    IF mode = "engine"
    THEN [score : Scores, pv : IF pc = "analyse_root" THEN BOOLEAN ELSE {TRUE}]
    ELSE {[score |-> IF pc = "analyse_root" THEN 301 ELSE 0, pv |-> TRUE]}

\* Lines 1873-1897: is a capture of a piece, is a knight fork available to the
\* opponent after the move played. The sample game has neither.
TacticAnswers ==
    IF mode = "engine" THEN [capture : BOOLEAN, fork : BOOLEAN]
    ELSE {[capture |-> FALSE, fork |-> FALSE]}

InAnalyse(t) == t.pc \in {"analyse_root", "analyse_cand", "analyse_actual"}

\* Line 1789 and line 1871: the score kept for a move, from the answer for the
\* Position after it.
StoredScore(ans) == 0 - ans.score

\* Lines 1899-1917 for eval_difference: the level named in the line added to
\* tactics_against; "unbound" where blunder_level was never assigned, so that
\* reading it raises UnboundLocalError.
BlunderLevel(eval_difference) ==
    IF eval_difference > 300 THEN "blunder"
    ELSE IF eval_difference > 200 THEN "mistake"
    ELSE IF eval_difference > 100 THEN "inaccuracy"
    ELSE "unbound"

\* Lines 1852-1927 once the engine has answered for the Position after the
\* played move: actual_move_analysis, or NoAnalysis when the try block raised.
\* best_legal: result["pv"][0] is legal in self.board (_safe_san is not None).
ActualMoveAnalysis(result, ans, tac, move_san, best_legal) ==
    LET actual_score == StoredScore(ans)
        found == (IF tac.capture THEN <<"Immediate capture">> ELSE <<>>)
                 \o (IF tac.fork THEN <<"Knight fork available">> ELSE <<>>)
        eval_difference == result.score - (0 - actual_score)
    IN  IF result.pv /\ best_legal
        THEN IF BlunderLevel(eval_difference) = "unbound"
             THEN NoAnalysis
             ELSE [ok |-> TRUE, move |-> move_san, score |-> actual_score,
                   tactics |-> Append(found, BlunderLevel(eval_difference))]
        ELSE [ok |-> TRUE, move |-> move_san, score |-> actual_score,
              tactics |-> found]

\* --------------------------------------------- _update_analysis_output
\* Line 1953: sorted(candidate_evaluations.items(), key=score, reverse=True);
\* the sort is stable, equal scores keep their insertion order.
RECURSIVE InsertByScore(_, _)
InsertByScore(sorted, e) ==
    IF sorted = <<>> THEN <<e>>
    ELSE IF Head(sorted)[2] >= e[2] THEN <<Head(sorted)>> \o InsertByScore(Tail(sorted), e)
    ELSE <<e>> \o sorted

RECURSIVE sorted_candidates(_)
sorted_candidates(evals) ==
    IF evals = <<>> THEN <<>>
    ELSE InsertByScore(sorted_candidates(SubSeq(evals, 1, Len(evals) - 1)),
                       evals[Len(evals)])

\* Lines 1957-1958.
Threshold(sorted) == sorted[1][2] - 200

\* A variant of the comparison that also eliminates a score at the threshold.
IsEliminatedInclusive(eval_score, threshold) == eval_score <= threshold

\* Lines 1964-1968.
IsEliminated(eval_score, threshold) == eval_score < threshold

EvalBullets(tag, cands, for) ==
    [i \in 1..Len(cands) |-> EngineLine(tag, cands[i][1], cands[i][2], for)]

\* Lines 1977-1985: the stored lines of the promising candidates.
RECURSIVE DetailedCalculation(_, _, _)
DetailedCalculation(promising, lines, for) ==
    IF promising = <<>> THEN <<>>
    ELSE LET move_san == Head(promising)[1]
             stored == SelectSeq(lines, LAMBDA l : l[1] = move_san)
         IN  (IF stored # <<>>
              THEN <<JoinedLine("calculation", move_san, stored[1][2], for)>>
              ELSE <<>>) \o DetailedCalculation(Tail(promising), lines, for)

\* Lines 1945-1993.
CandidateSection(evals, lines, for) ==
    IF evals = <<>> THEN <<>>
    ELSE LET sorted == sorted_candidates(evals)
             threshold == Threshold(sorted)
             Elim(e) == IsEliminated(e[2], threshold)
             Prom(e) == ~IsEliminated(e[2], threshold)
             promising == SelectSeq(sorted, Prom)
             eliminated == SelectSeq(sorted, Elim)
         IN  <<EngineLine("Promising candidate moves (calculate further):", NoSAN, 0, for)>>
             \o EvalBullets("promising", promising, for)
             \o (IF lines # <<>>
                 THEN <<EngineLine("Detailed calculation for promising candidates:",
                                   NoSAN, 0, for)>>
                      \o DetailedCalculation(promising, lines, for)
                 ELSE <<>>)
             \o (IF eliminated # <<>>
                 THEN <<EngineLine("Eliminated candidate moves (clearly worse):", NoSAN, 0, for)>>
                      \o EvalBullets("eliminated", eliminated, for)
                 ELSE <<>>)

\* Lines 1995-2020.
BlunderSection(analysis, lines, for) ==
    IF ~analysis.ok THEN <<>>
    ELSE <<EngineLine("STEP 7: Blunder Check for Actual Move", NoSAN, 0, for),
           EngineLine("Actual move played (Evaluation)", analysis.move, analysis.score, for)>>
         \o (IF analysis.tactics # <<>>
             THEN <<EngineLine("Potential issues with this move:", NoSAN, 0, for)>>
                  \o [i \in 1..Len(analysis.tactics) |->
                         EngineLine(analysis.tactics[i], NoSAN, 0, for)]
             ELSE <<EngineLine("No tactical weaknesses found with this move.", NoSAN, 0, for)>>)
         \o (LET stored == SelectSeq(lines, LAMBDA l : l[1] = analysis.move)
             IN  IF stored # <<>>
                 THEN <<JoinedLine("Calculation line after actual move:",
                                   analysis.move, stored[1][2], for)>>
                 ELSE <<>>)

\* Lines 2022-2106.
EvaluationSection(result, for) ==
    <<EngineLine("Engine Analysis", NoSAN, 0, for),
      EngineLine("Evaluation", NoSAN, result.score, for)>>
    \o (IF result.pv
        THEN <<EngineLine("Engine's best line until quiet position:", NoSAN, 0, for)>>
        ELSE <<>>)
    \o <<EngineLine("STEP 8: Final Position Evaluation", NoSAN, 0, for),
         EngineLine(IF result.score > 100 THEN "Position is favorable (+)"
                    ELSE IF result.score < 0 - 100 THEN "Position is unfavorable (-)"
                    ELSE "Position is roughly equal (=)", NoSAN, 0, for),
         EngineLine("Move Selection Guidelines:", NoSAN, 0, for)>>

\* Lines 1947-1950: the placeholder line of step 6 is searched and deleted.
Placeholder == "Calculating lines for each candidate move..."

DeletePlaceholder(out) ==
    IF HasLine(out, Placeholder)
    THEN LET k == CHOOSE i \in 1..Len(out) :
                      out[i].tag = Placeholder /\ \A j \in 1..(i - 1) : out[j].tag # Placeholder
         IN  SubSeq(out, 1, k - 1) \o SubSeq(out, k + 1, Len(out))
    ELSE out

\* _update_analysis_output (lines 1940-2108) on the text `out`: what the
\* callback of a thread leaves in thought_output.
UpdateAnalysisOutput(out, cb) ==
    (IF cb.candidate_evaluations # <<>> THEN DeletePlaceholder(out) ELSE out)
    \o CandidateSection(cb.candidate_evaluations, cb.candidate_lines, cb.for)
    \o BlunderSection(cb.actual_move_analysis, cb.candidate_lines, cb.for)
    \o EvaluationSection(cb.result, cb.for)

\* ------------------------------------------------------- the Tk handlers
engineVars == <<engine, procs, started>>
analysisVars == <<thought_output, tasks, calls, reports>>

\* analyze_current_position is invoked until this many reports are written.
TaskLimit ==
    IF mode = "game" THEN MaxTasks
    ELSE IF mode = "lifecycle" THEN MaxTasksLifecycle
    ELSE 1

CanAnalyze == running /\ reports < TaskLimit

\* self.board = node.board(): the helpers now answer for that Position. In
\* the "helpers" and "engine" environments `answers` is already what they
\* answer for the Position the user analyses; in the "position" environment
\* it holds that Position and the helpers are computed on it.
SetAnswers(node) ==
    answers' = IF mode \in {"game", "lifecycle"} THEN GameAnswers(node)
               ELSE IF mode = "position" THEN PositionAnswers(answers)
               ELSE IF mode = "engine" THEN EngineModeAnswers(answers, node)
               ELSE answers

SetBoard(node) ==
    /\ board' = node
    /\ SetAnswers(node)

\* A variant in which a what-if move is pushed on self.board itself: the
\* board is then the Position after that move.
PushOnBoard(brd) == brd + 1

\* self.board after `board_copy = self.board.copy()` and
\* `board_copy.push(move)` (lines 613, 652, 767-782, 828, 973-988, 1017, 1044,
\* 1089, 1142, 1184, 1317-1361, 1440, 1529, 1567, 1780, 1813, 1862, 2055):
\* every what-if move of the helpers and of the thread is pushed on a copy,
\* and self.board is assigned at lines 38, 217, 469, 479, 487, 495 and 517 only.
PushOnCopy(brd) == brd

\* The call of analyze_current_position that ends a handler.
AnalyzeCurrentPosition(g, node, brd, a, simplify) ==
    LET r == Analysis(g, node, brd, a, simplify, thought_output)
    IN  /\ thought_output' = r.out
        /\ tasks' = tasks \o r.spawn
        /\ calls' = r.calls
        /\ reports' = reports + (IF r.wrote THEN 1 ELSE 0)
        /\ board' = PushOnCopy(brd)

\* Lines 202-236, a game found in the file.
load_pgn ==
    /\ running /\ mode \in {"game", "lifecycle"}
    /\ game' = "white first"
    /\ current_node' = 0
    /\ SetBoard(0)
    /\ move_list' = TRUE
    /\ thought_output' = <<>>
    /\ status_var' = "Loaded game"
    /\ UNCHANGED <<simplify_analysis, engineVars, tasks, after_queue, calls, reports,
                   running, mode>>

\* Lines 213-233, no game found in the file: self.game is None, the current
\* node and the rows of the move list stay those of the game loaded before.
load_pgn_no_game ==
    /\ running /\ mode \in {"game", "lifecycle"}
    /\ game # NoGame
    /\ game' = NoGame
    /\ status_var' = "No game found in the PGN file."
    /\ UNCHANGED <<current_node, board, answers, move_list, simplify_analysis,
                   engineVars, analysisVars, after_queue, running, mode>>

\* Lines 465-471.
goto_start ==
    /\ running /\ game # NoGame
    /\ current_node' = 0
    /\ SetBoard(0)
    /\ thought_output' = <<>>
    /\ UNCHANGED <<game, move_list, simplify_analysis, engineVars, status_var, tasks,
                   after_queue, calls, reports, running, mode>>

\* Lines 473-481.
goto_end ==
    /\ CanAnalyze /\ game # NoGame
    /\ current_node' = GameLen
    /\ SetAnswers(GameLen)
    /\ AnalyzeCurrentPosition(game, GameLen, GameLen, answers', simplify_analysis)
    /\ UNCHANGED <<game, move_list, simplify_analysis, engineVars, status_var,
                   after_queue, running, mode>>

\* Lines 483-489.
next_move ==
    /\ CanAnalyze
    /\ current_node # NoNode /\ HasVariation(current_node)
    /\ current_node' = current_node + 1
    /\ SetAnswers(current_node + 1)
    /\ AnalyzeCurrentPosition(game, current_node + 1, current_node + 1, answers',
                              simplify_analysis)
    /\ UNCHANGED <<game, move_list, simplify_analysis, engineVars, status_var,
                   after_queue, running, mode>>

\* Lines 491-497.
prev_move ==
    /\ CanAnalyze
    /\ current_node # NoNode /\ current_node > 0
    /\ current_node' = current_node - 1
    /\ SetAnswers(current_node - 1)
    /\ AnalyzeCurrentPosition(game, current_node - 1, current_node - 1, answers',
                              simplify_analysis)
    /\ UNCHANGED <<game, move_list, simplify_analysis, engineVars, status_var,
                   after_queue, running, mode>>

\* Lines 499-522, row move_idx of the move list selected. With self.game None
\* the handler leaves self.current_node None and raises before the rest.
SelectedNode(move_idx) ==
    LET target_idx == IF move_idx * 2 < GameLen - 1 THEN move_idx * 2 ELSE GameLen - 1
    IN  target_idx + 1

on_move_selected(move_idx) ==
    /\ CanAnalyze /\ move_list
    /\ IF game = NoGame
       THEN /\ current_node' = NoNode
            /\ UNCHANGED <<board, answers, analysisVars>>
       ELSE /\ current_node' = SelectedNode(move_idx)
            /\ SetAnswers(SelectedNode(move_idx))
            /\ AnalyzeCurrentPosition(game, SelectedNode(move_idx), SelectedNode(move_idx),
                                      answers', simplify_analysis)
    /\ UNCHANGED <<game, move_list, simplify_analysis, engineVars, status_var,
                   after_queue, running, mode>>

\* Line 84: F5.
F5 ==
    /\ CanAnalyze
    /\ AnalyzeCurrentPosition(game, current_node, board, answers, simplify_analysis)
    /\ UNCHANGED <<game, current_node, answers, move_list, simplify_analysis,
                   engineVars, status_var, after_queue, running, mode>>

\* Lines 279-284: the menu's check button.
toggle_simplified_analysis ==
    /\ CanAnalyze
    /\ simplify_analysis' = ~simplify_analysis
    /\ IF current_node # NoNode
       THEN AnalyzeCurrentPosition(game, current_node, board, answers, ~simplify_analysis)
       ELSE UNCHANGED <<board, analysisVars>>
    /\ UNCHANGED <<game, current_node, answers, move_list, engineVars,
                   status_var, after_queue, running, mode>>

\* ------------------------------------------------------- engine lifecycle
\* A variant of stop_engine that leaves the process running.
NotStopped(e, ps) == ps

\* stop_engine (lines 2185-2193) as a function of the state: quit() ends the
\* process; on a process that has ended already it raises, which is swallowed.
StoppedProcs(e, ps) == IF e # NoEngine THEN ps \ {e} ELSE ps

\* configure_engine (lines 2195-2208) with a path chosen in the dialog:
\* stop_engine, then start_engine (lines 2176-2183), where popen_uci starts a
\* process (ok) or raises.
configure_engine(ok) ==
    /\ running
    /\ started < MaxProcs
    /\ IF ok
       THEN /\ started' = started + 1
            /\ engine' = started + 1
            /\ procs' = StoppedProcs(engine, procs) \cup {started + 1}
            /\ status_var' = "Engine started"
       ELSE /\ engine' = NoEngine
            /\ procs' = StoppedProcs(engine, procs)
            /\ status_var' = "Error starting engine"
            /\ UNCHANGED started
    /\ UNCHANGED <<game, current_node, board, answers, move_list, simplify_analysis,
                   analysisVars, after_queue, running, mode>>

\* main (lines 2299-2307): the main loop returns, the engine is stopped.
exit_main ==
    /\ running
    /\ running' = FALSE
    /\ procs' = StoppedProcs(engine, procs)
    /\ engine' = NoEngine
    /\ status_var' = IF engine # NoEngine THEN "Engine stopped" ELSE status_var
    /\ UNCHANGED <<game, current_node, board, answers, move_list, simplify_analysis,
                   started, analysisVars, after_queue, mode>>

\* The engine process ends by itself (it crashes or is killed).
engine_terminates ==
    /\ running
    /\ engine # NoEngine /\ engine \in procs
    /\ procs' = procs \ {engine}
    /\ UNCHANGED <<game, current_node, board, answers, move_list, simplify_analysis,
                   engine, started, status_var, analysisVars, after_queue, running, mode>>

\* ------------------------------------- _run_engine_analysis, step by step
\* A thread is at "start", inside one of its three calls of engine.analyse
\* ("analyse_root", "analyse_cand", "analyse_actual"), between two of them
\* ("candidates", "actual") or "done". Its last step hands the callback to
\* root.after.
UpdateCallback(t) ==
    [kind |-> "update", result |-> t.result,
     candidate_evaluations |-> t.candidate_evaluations,
     candidate_lines |-> t.candidate_lines,
     actual_move_analysis |-> t.actual_move_analysis,
     actual_answer |-> t.actual_answer, for |-> t.for]

ErrorCallback(t) ==
    [kind |-> "error", result |-> NoResult, candidate_evaluations |-> <<>>,
     candidate_lines |-> <<>>,
     actual_move_analysis |-> NoAnalysis, actual_answer |-> NoAnswer, for |-> t.for]

\* Where the thread stands with candidate i done or skipped.
PcFrom(t) ==
    IF t.i <= Len(t.candidate_moves) THEN "candidates"
    ELSE IF t.next_node # NoNode THEN "actual"
    ELSE "post"

\* A thread that has ended: its locals are gone, what the model recorded of
\* its start stays.
Ended(t) ==
    [NewTask(t.candidate_moves, t.next_node, t.for, <<>>) EXCEPT
        !.pc = "done", !.written = t.written]

\* The thread goes on as t; at "post" it calls root.after (lines 1929-1935)
\* and ends.
Continue(k, t) ==
    IF t.pc = "post"
    THEN /\ tasks' = [tasks EXCEPT ![k] = Ended(t)]
         /\ after_queue' = Append(after_queue, UpdateCallback(t))
    ELSE /\ tasks' = [tasks EXCEPT ![k] = t]
         /\ UNCHANGED after_queue

taskFrame == <<game, current_node, answers, move_list, simplify_analysis,
               engineVars, thought_output, calls, reports, running, mode>>

\* A variant without the test of self.engine: engine.analyse is called on
\* None, the call raises and the except at line 1936 hands the error to
\* root.after.
AnalyseWithoutEngine(k) ==
    /\ tasks' = [tasks EXCEPT ![k] = Ended(tasks[k])]
    /\ after_queue' = Append(after_queue, ErrorCallback(tasks[k]))
    /\ UNCHANGED status_var

\* Lines 1745-1747: with no engine the thread sets the status and returns;
\* nothing is handed to root.after.
EngineUnavailable(k) ==
    /\ status_var' = "Engine not running. Analysis unavailable."
    /\ tasks' = [tasks EXCEPT ![k] = Ended(tasks[k])]
    /\ UNCHANGED after_queue

\* Lines 1745-1754: no engine, or the call of engine.analyse(self.board).
task_start(k) ==
    /\ running /\ tasks[k].pc = "start"
    /\ IF engine = NoEngine
       THEN EngineUnavailable(k)
       ELSE /\ tasks' = [tasks EXCEPT ![k].pc = "analyse_root", ![k].using = engine,
                                      ![k].root_board = board]
            /\ UNCHANGED <<status_var, after_queue>>
    /\ UNCHANGED <<taskFrame, board>>

\* Lines 1751-1761: the engine answers for the root, or the call raises
\* because the process has ended (lines 1937-1938).
task_root_return(k) ==
    /\ running /\ tasks[k].pc = "analyse_root"
    /\ IF tasks[k].using \in procs
       THEN \E ans \in EngineAnswers("analyse_root") :
                LET t == [tasks[k] EXCEPT !.result = [ok |-> TRUE, score |-> ans.score,
                                                       pv |-> ans.pv],
                                          !.using = NoEngine]
                IN  Continue(k, [t EXCEPT !.pc = PcFrom(t)])
       ELSE /\ tasks' = [tasks EXCEPT ![k] = Ended(tasks[k])]
            /\ after_queue' = Append(after_queue, ErrorCallback(tasks[k]))
    /\ UNCHANGED <<taskFrame, board, status_var>>

\* A variant with `break` in the place of `continue`: the loop over the
\* candidates ends at the first one that is skipped.
BreakAtCandidate(k, t) ==
    LET u == [t EXCEPT !.i = Len(t.candidate_moves) + 1]
    IN  Continue(k, [u EXCEPT !.pc = PcFrom(u)])

\* Lines 1764-1775 and 1847-1848: `continue` for a SAN that does not parse or
\* is not legal in self.board, and the except of the loop body for a call
\* that raises; the loop goes on with the next candidate.
SkipCandidate(k, t) ==
    LET u == [t EXCEPT !.i = t.i + 1]
    IN  Continue(k, [u EXCEPT !.pc = PcFrom(u)])

\* Lines 1762-1786: candidate i is parsed in self.board; if it is a legal move
\* and there is an engine, engine.analyse is called for the Position after it,
\* else the candidate is skipped (lines 1768-1776, 1847-1848).
task_candidate(k) ==
    /\ running /\ tasks[k].pc = "candidates"
    /\ LET t == tasks[k]
           move_san == t.candidate_moves[t.i]
       IN  IF move_san \in answers.legal /\ engine # NoEngine
           THEN /\ Continue(k, [t EXCEPT !.pc = "analyse_cand", !.using = engine])
                /\ board' = PushOnCopy(board)
           ELSE /\ SkipCandidate(k, t)
                /\ UNCHANGED board
    /\ UNCHANGED <<taskFrame, status_var>>

\* Lines 1783-1790, 1847-1848: the engine answers and the score is stored, or
\* the call raises and the candidate stays without evaluation.
task_candidate_return(k) ==
    /\ running /\ tasks[k].pc = "analyse_cand"
    /\ LET t == tasks[k]
           move_san == t.candidate_moves[t.i]
       IN  IF t.using \in procs
           THEN \E ans \in EngineAnswers("analyse_cand"), plies \in CandidatePVs :
                    LET u == [t EXCEPT !.candidate_evaluations =
                                           Append(@, <<move_san, StoredScore(ans), ans.score>>),
                                       !.candidate_lines =
                                           StoreLine(@, move_san, plies),
                                       !.i = t.i + 1, !.using = NoEngine]
                    IN  Continue(k, [u EXCEPT !.pc = PcFrom(u)])
           ELSE LET u == [t EXCEPT !.i = t.i + 1, !.using = NoEngine]
                IN  Continue(k, [u EXCEPT !.pc = PcFrom(u)])
    /\ UNCHANGED <<taskFrame, board, status_var>>

\* next_node.move is legal in self.board (_safe_san, lines 1856-1858).
ActualLegal(t) == board = t.next_node - 1

\* Lines 1852-1868: the played move is checked in self.board and engine.analyse
\* is called for the Position after it, or the try block raises.
task_actual(k) ==
    /\ running /\ tasks[k].pc = "actual"
    /\ LET t == tasks[k]
       IN  IF ActualLegal(t) /\ engine # NoEngine
           THEN /\ Continue(k, [t EXCEPT !.pc = "analyse_actual", !.using = engine])
                /\ board' = PushOnCopy(board)
           ELSE /\ Continue(k, [t EXCEPT !.pc = "post"])
                /\ UNCHANGED board
    /\ UNCHANGED <<taskFrame, status_var>>

\* Lines 1865-1927.
task_actual_return(k) ==
    /\ running /\ tasks[k].pc = "analyse_actual"
    /\ LET t == tasks[k]
       IN  IF t.using \in procs
           THEN \E ans \in EngineAnswers("analyse_actual"), tac \in TacticAnswers :
                    Continue(k, [t EXCEPT
                        !.actual_move_analysis =
                            ActualMoveAnalysis(t.result, ans, tac,
                                               ActualSAN(t.next_node - 1),
                                               board = t.root_board),
                        !.actual_answer = [ok |-> TRUE, score |-> ans.score],
                        !.using = NoEngine, !.pc = "post"])
           ELSE Continue(k, [t EXCEPT !.using = NoEngine, !.pc = "post"])
    /\ UNCHANGED <<taskFrame, board, status_var>>

\* The main loop runs the oldest callback handed to root.after.
run_after ==
    /\ running /\ after_queue # <<>>
    /\ LET cb == Head(after_queue)
       IN  IF cb.kind = "update"
           THEN /\ thought_output' = UpdateAnalysisOutput(thought_output, cb)
                /\ UNCHANGED status_var
           ELSE /\ status_var' = "Analysis error"
                /\ UNCHANGED thought_output
    /\ after_queue' = Tail(after_queue)
    /\ UNCHANGED <<game, current_node, board, answers, move_list, simplify_analysis,
                   engineVars, tasks, calls, reports, running, mode>>

\* ------------------------------------------- the environment of the helpers
\* In the "helpers" environment the game is loaded and, before the user
\* navigates, the answers of find_threats, generate_responses, the CCT sweep,
\* find_tactical_signals, analyze_tactical_position and
\* analyze_strategic_position for the Position navigated to are chosen entry
\* by entry, at most MaxTotal moves in all.
RECURSIVE SumLen(_, _)
SumLen(responses, k) ==
    IF k > Len(Categories) THEN 0
    ELSE Len(responses[Categories[k]]) + SumLen(responses, k + 1)

Total(a) ==
    SumLen(a.responses, 1) + Len(a.checks) + Len(a.captures)
    + Len(a.cct) + Len(a.tactical) + Len(a.strategic)

CanAnswer == mode = "helpers" /\ reports = 0 /\ Total(answers) < MaxTotal

\* A list built by a loop over board.legal_moves is in the order of the moves.
Ascending(list, san) == IF list = <<>> THEN TRUE ELSE list[Len(list)] < san

envFrame == <<game, current_node, board, move_list, simplify_analysis, engineVars,
              thought_output, status_var, tasks, after_queue, calls, reports,
              running, mode>>

\* find_threats returns a threat.
env_threat ==
    /\ mode = "helpers" /\ reports = 0 /\ answers.threats = <<>>
    /\ answers' = [answers EXCEPT !.threats = <<Threat(CheckText, NoSAN)>>]
    /\ UNCHANGED envFrame

\* generate_responses returns one more move in a category (lines 1188-1193:
\* no move twice in a category, at most 5).
env_response(c, san) ==
    /\ CanAnswer /\ answers.threats # <<>>
    /\ ~Contains(answers.responses[c], san) /\ Len(answers.responses[c]) < 5
    /\ answers' = [answers EXCEPT !.responses[c] = Append(@, san)]
    /\ UNCHANGED envFrame

\* Lines 610-615: one more legal move gives check.
env_check(san) ==
    /\ CanAnswer /\ Ascending(answers.checks, san)
    /\ answers' = [answers EXCEPT !.checks = Append(@, san)]
    /\ UNCHANGED envFrame

\* Lines 626-629: one more legal move is a capture.
env_capture(san) ==
    /\ CanAnswer /\ Ascending(answers.captures, san) /\ ~Contains(answers.cct, san)
    /\ answers' = [answers EXCEPT !.captures = Append(@, san)]
    /\ UNCHANGED envFrame

\* Lines 640-666: one more legal move that is no capture creates a threat.
env_cct(san) ==
    /\ CanAnswer /\ Ascending(answers.cct, san) /\ ~Contains(answers.captures, san)
    /\ answers' = [answers EXCEPT !.cct = Append(@, san)]
    /\ UNCHANGED envFrame

\* find_tactical_signals returns a signal.
env_signal ==
    /\ mode = "helpers" /\ reports = 0 /\ ~answers.signals
    /\ answers' = [answers EXCEPT !.signals = TRUE]
    /\ UNCHANGED envFrame

\* analyze_tactical_position returns one more move (no move twice).
env_tactical(san) ==
    /\ CanAnswer /\ ~Contains(answers.tactical, san)
    /\ answers' = [answers EXCEPT !.tactical = Append(@, san)]
    /\ UNCHANGED envFrame

\* analyze_strategic_position returns one more move (line 1739: no move twice).
env_strategic(san) ==
    /\ CanAnswer /\ ~Contains(answers.strategic, san)
    /\ answers' = [answers EXCEPT !.strategic = Append(@, san)]
    /\ UNCHANGED envFrame

\* ----------------------------------------- the environment of the Position
\* In the "position" environment the Position navigated to is chosen before
\* the user navigates: its moves in enumeration order, whether the side to
\* move is in check, and what the loops over the squares find.
positionFrame == <<game, current_node, board, move_list, simplify_analysis, engineVars,
                   thought_output, status_var, tasks, after_queue, calls, reports,
                   running, mode>>

\* One more move: of any kind for the first MaxMoves, of the kind of the
\* move before for the further ones.
env_move(class) ==
    /\ mode = "position" /\ reports = 0
    /\ IF Len(answers.moves) < MaxMoves THEN TRUE
       ELSE IF Len(answers.moves) < MaxLegal
            THEN Move(NoSAN, answers.moves[Len(answers.moves)]) = class
            ELSE FALSE
    /\ answers' = [answers EXCEPT !.moves = Append(@, Move(Len(@) + 1, class))]
    /\ UNCHANGED positionFrame

\* board.is_check(), and what can_lead_to_checkmate answers (lines 846-864).
env_in_check(answer) ==
    /\ mode = "position" /\ reports = 0 /\ answers.in_check = "no"
    /\ answers' = [answers EXCEPT !.in_check = answer]
    /\ UNCHANGED positionFrame

\* What the loops over the squares find (lines 868-952).
SquareSamples ==
    {[hanging |-> <<UndefendedText>>, forks |-> 0, skewers |-> 0],
     [hanging |-> <<UnderdefendedText, LowerValueText>>, forks |-> 1, skewers |-> 0],
     [hanging |-> <<UndefendedText, UndefendedText>>, forks |-> 1, skewers |-> 1]}

env_squares(sample) ==
    /\ mode = "position" /\ reports = 0
    /\ answers.hanging = <<>> /\ answers.forks = 0 /\ answers.skewers = 0
    /\ answers' = [answers EXCEPT !.hanging = sample.hanging, !.forks = sample.forks,
                                  !.skewers = sample.skewers]
    /\ UNCHANGED positionFrame

\* ----------------------------------------------------------- specifications
\* After __init__ (lines 22-52): no game, start_engine has started the engine
\* or failed.
InitWindow ==
    /\ game = NoGame /\ current_node = NoNode /\ board = 0
    /\ simplify_analysis = FALSE
    /\ thought_output = <<>> /\ tasks = <<>> /\ after_queue = <<>>
    /\ calls = <<>> /\ reports = 0
    /\ move_list = FALSE /\ running = TRUE

InitEngineStarted ==
    \/ engine = 1 /\ procs = {1} /\ started = 1 /\ status_var = "Engine started"
    \/ engine = NoEngine /\ procs = {} /\ started = 0
       /\ status_var = "Error starting engine"

\* The user loads a game, navigates, presses F5 and toggles the simplify
\* mode while the threads run.
Init ==
    /\ InitWindow /\ InitEngineStarted
    /\ mode = "game"
    /\ answers = GameAnswers(0)

Next ==
    \/ load_pgn
    \/ load_pgn_no_game
    \/ goto_start
    \/ goto_end
    \/ next_move
    \/ prev_move
    \/ \E move_idx \in 0..(((GameLen + 1) \div 2) - 1) : on_move_selected(move_idx)
    \/ F5
    \/ toggle_simplified_analysis
    \/ \E k \in 1..Len(tasks) : task_start(k)
    \/ \E k \in 1..Len(tasks) : task_root_return(k)
    \/ \E k \in 1..Len(tasks) : task_candidate(k)
    \/ \E k \in 1..Len(tasks) : task_candidate_return(k)
    \/ \E k \in 1..Len(tasks) : task_actual(k)
    \/ \E k \in 1..Len(tasks) : task_actual_return(k)
    \/ run_after

Spec == Init /\ [][Next]_vars

\* The user loads a game and steps through it while the engine is configured
\* anew, ends by itself or the program exits.
InitLifecycle ==
    /\ InitWindow /\ InitEngineStarted
    /\ mode = "lifecycle"
    /\ answers = GameAnswers(0)

NextLifecycle ==
    \/ load_pgn
    \/ next_move
    \/ goto_start
    \/ \E ok \in BOOLEAN : configure_engine(ok)
    \/ exit_main
    \/ engine_terminates
    \/ \E k \in 1..Len(tasks) : task_start(k)
    \/ \E k \in 1..Len(tasks) : task_root_return(k)
    \/ \E k \in 1..Len(tasks) : task_candidate(k)
    \/ \E k \in 1..Len(tasks) : task_candidate_return(k)
    \/ \E k \in 1..Len(tasks) : task_actual(k)
    \/ \E k \in 1..Len(tasks) : task_actual_return(k)
    \/ run_after

SpecLifecycle == InitLifecycle /\ [][NextLifecycle]_vars

\* A game is loaded, the engine runs, the simplify mode is either; the user
\* navigates once, from the root to the first move.
InitLoaded ==
    /\ game \in {"white first", "black first"} /\ current_node = 0 /\ board = 0
    /\ thought_output = <<>> /\ tasks = <<>> /\ after_queue = <<>>
    /\ calls = <<>> /\ reports = 0
    /\ move_list = TRUE /\ running = TRUE
    /\ engine = 1 /\ procs = {1} /\ started = 1 /\ status_var = "Loaded game"

InitPipeline ==
    /\ InitLoaded /\ game = "white first"
    /\ mode = "helpers"
    /\ simplify_analysis \in BOOLEAN
    /\ answers = NoAnswers

NextPipeline ==
    \/ env_threat
    \/ \E c \in Range(Categories), san \in SANs : env_response(c, san)
    \/ \E san \in SANs : env_check(san)
    \/ \E san \in SANs : env_capture(san)
    \/ \E san \in SANs : env_cct(san)
    \/ env_signal
    \/ \E san \in SANs : env_tactical(san)
    \/ \E san \in SANs : env_strategic(san)
    \/ next_move

SpecPipeline == InitPipeline /\ [][NextPipeline]_vars

\* A game is loaded whose root has either side to move; the helpers answer
\* with some candidate moves (as checks); the user navigates once, to the first
\* move or to the end and may go back to the start, and the thread runs with
\* an engine that answers anything.
RECURSIVE AscendingSeq(_)
AscendingSeq(S) ==
    IF S = {} THEN <<>>
    ELSE LET m == CHOOSE x \in S : \A y \in S : x <= y
         IN  <<m>> \o AscendingSeq(S \ {m})

InitEngine ==
    /\ InitLoaded
    /\ mode = "engine"
    /\ simplify_analysis = FALSE
    /\ answers \in {EngineModeAnswers([NoAnswers EXCEPT !.checks = AscendingSeq(S)], 0) :
                        S \in SUBSET SANs}

NextEngine ==
    \/ next_move
    \/ goto_end
    \/ goto_start
    \/ \E k \in 1..Len(tasks) : task_start(k)
    \/ \E k \in 1..Len(tasks) : task_root_return(k)
    \/ \E k \in 1..Len(tasks) : task_candidate(k)
    \/ \E k \in 1..Len(tasks) : task_candidate_return(k)
    \/ \E k \in 1..Len(tasks) : task_actual(k)
    \/ \E k \in 1..Len(tasks) : task_actual_return(k)
    \/ run_after

SpecEngine == InitEngine /\ [][NextEngine]_vars

\* A game is loaded, the helpers answer with one candidate; the user goes to
\* the end of the game and the thread runs with an engine that returns any
\* principal variation after the candidate.
InitLines ==
    /\ InitLoaded /\ game = "white first"
    /\ mode = "lines"
    /\ simplify_analysis = FALSE
    /\ answers = [NoAnswers EXCEPT !.checks = <<1>>]

NextLines ==
    \/ goto_end
    \/ \E k \in 1..Len(tasks) : task_start(k)
    \/ \E k \in 1..Len(tasks) : task_root_return(k)
    \/ \E k \in 1..Len(tasks) : task_candidate(k)
    \/ \E k \in 1..Len(tasks) : task_candidate_return(k)
    \/ run_after

SpecLines == InitLines /\ [][NextLines]_vars

\* A game is loaded; the Position after its first move is any Position of the
\* "position" environment; the user navigates to it.
InitPosition ==
    /\ InitLoaded /\ game = "white first"
    /\ mode = "position"
    /\ simplify_analysis = FALSE
    /\ answers = NoAnswers

NextPosition ==
    \/ \E class \in MoveClasses : env_move(class)
    \/ \E answer \in {"check", "could lead to checkmate"} : env_in_check(answer)
    \/ \E sample \in SquareSamples : env_squares(sample)
    \/ next_move

SpecPosition == InitPosition /\ [][NextPosition]_vars

\* A game is loaded; the Position after the move the user navigates to has
\* any number of pieces and lies any number of half-moves into the game.
InitPhase ==
    /\ InitLoaded /\ game = "white first"
    /\ mode = "phase"
    /\ simplify_analysis = FALSE
    /\ answers \in {[NoAnswers EXCEPT !.num_pieces = n, !.before = b] :
                        n \in PieceCounts, b \in 0..MaxBefore}

NextPhase == next_move

SpecPhase == InitPhase /\ [][NextPhase]_vars

\* ------------------------------------------------------------- properties
\* C1: stale engine results are dropped: the report never holds candidate
\* evaluations, a blunder check or an engine evaluation of a thread that was
\* started for a Position other than the one displayed.
C1_StaleResultsDropped ==
    \A i \in 1..Len(thought_output) :
        thought_output[i].for # NoNode => thought_output[i].for = board

\* C2: engine calls are serialized: no two threads are inside a call of
\* engine.analyse on the same engine process at the same time.
C2_EngineCallsSerialized ==
    \A j, k \in 1..Len(tasks) :
        (j # k /\ InAnalyse(tasks[j]) /\ InAnalyse(tasks[k]))
            => tasks[j].using # tasks[k].using

\* C3: every invocation of analyze_current_position that writes a report has
\* started exactly one thread and an invocation that returns early none (as
\* many threads as reports); when a thread is started, the headings of steps
\* 1 to 4 and, with candidates, of steps 5 and 6 are already in the report.
C3_OneThreadPerReport ==
    /\ Len(tasks) = reports
    /\ \A k \in 1..Len(tasks) :
          LET written == tasks[k].written
          IN  /\ {"STEP 1: Opponent Threats?", "STEP 3: Tactical Signals or Targets?",
                  "STEP 4: Strategic Analysis"} \subseteq written
              /\ \/ "STEP 2: Response Options" \in written
                 \/ "STEP 2: Game Phase" \in written
              /\ IF tasks[k].candidate_moves # <<>>
                 THEN {"STEP 5: Candidate Move Selection",
                       "STEP 6: Calculate Variations"} \subseteq written
                 ELSE "No candidate moves identified. Consider general principles."
                          \in written

\* Two reports were written, one with candidates and one without, and each
\* started its thread.
C3_Witness ==
    /\ reports = 2 /\ Len(tasks) = 2
    /\ tasks[1].candidate_moves # <<>> /\ tasks[2].candidate_moves = <<>>

\* C4: at most one engine process is running, and it is the one self.engine
\* refers to: a replaced process is not left running.
C4_OneEngineProcess ==
    /\ Cardinality(procs) <= 1
    /\ procs \subseteq {engine}

\* configure_engine has replaced a started engine by a second process.
C4_Witness == started = 2 /\ engine = 2 /\ procs = {2}

\* C5: the aggregated candidate list handed to the thread holds no SAN
\* string twice.
C5_NoDuplicateCandidates ==
    \A k \in 1..Len(tasks) : NoDuplicates(tasks[k].candidate_moves)

\* The Threats Response bucket holds a category of two moves twice over, and
\* one of the moves is also a check.
C5_Witness ==
    /\ Len(tasks) = 1 /\ answers.threats # <<>>
    /\ \E c \in Range(Categories) :
          /\ Len(answers.responses[c]) = 2
          /\ \E san \in Range(answers.checks) : Contains(answers.responses[c], san)
    /\ Len(tasks[1].candidate_moves) = 2

\* C6: the aggregated candidate list holds exactly the moves of the six
\* buckets, each at the place of its first occurrence in the concatenation
\* Threats Response, Checks, Captures, Threats, Tactical Opportunities,
\* Strategic Improvements.
C6_BucketPriority ==
    \A k \in 1..Len(tasks) :
        LET c == candidate_moves_collection(answers, simplify_analysis)
            cat == c["Threats Response"] \o c["Checks"] \o c["Captures"]
                   \o c["Threats"] \o c["Tactical Opportunities"]
                   \o c["Strategic Improvements"]
            u == tasks[k].candidate_moves
        IN  /\ Range(u) = Range(cat)
            /\ \A i, j \in 1..Len(u) :
                  i < j => FirstIndex(cat, u[i]) < FirstIndex(cat, u[j])

\* A check, then a different capture, then the check again as a strategic
\* move: the list is the check and the capture.
C6_Witness ==
    /\ Len(tasks) = 1
    /\ Len(answers.checks) = 1 /\ Len(answers.captures) = 1
    /\ answers.strategic = answers.checks /\ answers.captures # answers.checks
    /\ ~StrategicSkipped(answers, simplify_analysis)
    /\ tasks[1].candidate_moves = answers.checks \o answers.captures

\* C7: strategic gating: with a threat found by find_threats and the simplify
\* mode on, analyze_strategic_position is not called and the Strategic
\* Improvements bucket is empty; otherwise it is called and its moves are the
\* bucket.
C7_StrategicGating ==
    reports = 1 =>
        LET bucket == candidate_moves_collection(answers, simplify_analysis)
                          ["Strategic Improvements"]
        IN  IF answers.threats # <<>> /\ simplify_analysis
            THEN ~Contains(calls, "analyze_strategic_position") /\ bucket = <<>>
            ELSE Contains(calls, "analyze_strategic_position")
                 /\ bucket = answers.strategic

\* C8: the score stored for a candidate and for the played move is the
\* engine's score of the Position after the move from the point of view of the
\* side to move in the analysed Position: White's score when White is to
\* move there, its negation when Black is.
C8_ScoreSign ==
    \A n \in 1..Len(after_queue) :
        LET cb == after_queue[n]
            Expected(whiteScore) ==
                IF WhiteToMove(game, cb.for) THEN whiteScore ELSE 0 - whiteScore
        IN  /\ \A i \in 1..Len(cb.candidate_evaluations) :
                  cb.candidate_evaluations[i][2]
                      = Expected(cb.candidate_evaluations[i][3])
            /\ cb.actual_move_analysis.ok =>
                  cb.actual_move_analysis.score = Expected(cb.actual_answer.score)

C10_VerdictDelivered ==
    \A n \in 1..Len(after_queue) :
        LET cb == after_queue[n]
            gap == cb.result.score - cb.actual_answer.score
            level == IF gap > 300 THEN "blunder"
                     ELSE IF gap > 200 THEN "mistake" ELSE "inaccuracy"
        IN  cb.actual_answer.ok =>
                /\ cb.actual_move_analysis.ok
                /\ (cb.result.pv /\ gap > 100)
                       => Contains(cb.actual_move_analysis.tactics, level)

C11_MateDisplay ==
    \A i \in 1..Len(thought_output) :
        LET line == thought_output[i]
            abs == IF line.score < 0 THEN 0 - line.score ELSE line.score
        IN  (line.tag \in ScoredTags /\ abs \in MateScores)
                => line.eval_str = [kind |-> "M", n |-> 10000 - abs]

\* C12: every calculation line stored under a candidate's SAN begins with
\* that SAN, whatever principal variation the engine returned, an empty one
\* included.
C12_LineBeginsWithCandidate ==
    \A n \in 1..Len(after_queue) :
        \A i \in 1..Len(after_queue[n].candidate_lines) :
            LET stored == after_queue[n].candidate_lines[i]
            IN  /\ stored[2] # <<>>
                /\ stored[2][1].move = stored[1]
                /\ stored[2][1].note = "candidate"

\* The line stored for an empty principal variation is the candidate alone;
\* the callback carries it.
C12_Witness ==
    \E n \in 1..Len(after_queue) :
        after_queue[n].candidate_lines = <<<<1, <<Entry(1, "candidate")>>>>>>

\* C13: when a threat is handled by the check branch, every move in the four
\* buckets of generate_responses is a legal move of the side to move: its own
\* king is not in check after it.
C13_ResponsesLeaveNoCheck ==
    (reports = 1 /\ \E k \in 1..Len(answers.threats) :
                        Branch(answers.threats[k]) = "check")
        => \A c \in Range(Categories) :
              \A i \in 1..Len(answers.responses[c]) :
                  \E j \in 1..Len(answers.moves) :
                      /\ answers.moves[j].san = answers.responses[c][i]
                      /\ ~answers.moves[j].exposes_king

\* The side to move is in check, one of its moves would leave the king in
\* check, another is a response.
C13_Witness ==
    /\ reports = 1 /\ answers.in_check # "no"
    /\ \E j \in 1..Len(answers.moves) : answers.moves[j].exposes_king
    /\ \E c \in Range(Categories) : answers.responses[c] # <<>>

\* C14: each bucket of generate_responses holds no SAN twice and at most 5
\* moves, the first 5 distinct moves appended to it in the order they were
\* appended.
C14_ResponsesDedupedAndCapped ==
    reports = 1 =>
        \A c \in Range(Categories) :
            LET raw == RawResponses(answers.threats, 1, answers.in_check # "no",
                                    legal_moves(answers.moves), c)
                kept == answers.responses[c]
            IN  /\ NoDuplicates(kept) /\ Len(kept) <= 5
                /\ Range(kept) \subseteq Range(raw)
                /\ \A i, j \in 1..Len(kept) :
                      i < j => FirstIndex(raw, kept[i]) < FirstIndex(raw, kept[j])
                /\ \A x \in Range(raw) :
                      x \notin Range(kept)
                          => /\ Len(kept) = 5
                             /\ \A i \in 1..5 : FirstIndex(raw, kept[i]) < FirstIndex(raw, x)

\* Two threats each append the same six moves to a bucket: five are kept.
C14_Witness ==
    /\ reports = 1
    /\ \E c \in Range(Categories) :
          LET raw == RawResponses(answers.threats, 1, answers.in_check # "no",
                                  legal_moves(answers.moves), c)
          IN  Len(raw) = 12 /\ Cardinality(Range(raw)) = 6
              /\ Len(answers.responses[c]) = 5

\* C16: with no engine running, an invocation of analyze_current_position
\* still writes the whole synchronous report (the headings of steps 1 to 4
\* and, with candidates, of steps 5 and 6) and starts its thread; the thread
\* ends with the status "Engine not running. Analysis unavailable.", hands
\* nothing to root.after (no error, no update) and leaves the report as it
\* was.
C16_NoEngineDegrades ==
    [][ /\ (engine = NoEngine /\ reports' # reports) =>
              /\ Len(tasks') = Len(tasks) + 1
              /\ LET t == tasks'[Len(tasks')]
                     tags == {thought_output'[n].tag : n \in 1..Len(thought_output')}
                 IN  /\ t.pc = "start"
                     /\ {"STEP 1: Opponent Threats?",
                         "STEP 3: Tactical Signals or Targets?",
                         "STEP 4: Strategic Analysis"} \subseteq tags
                     /\ \/ "STEP 2: Response Options" \in tags
                        \/ "STEP 2: Game Phase" \in tags
                     /\ IF t.candidate_moves # <<>>
                        THEN {"STEP 5: Candidate Move Selection",
                              "STEP 6: Calculate Variations"} \subseteq tags
                        ELSE "No candidate moves identified. Consider general principles."
                                 \in tags
        /\ \A k \in 1..Len(tasks) :
              (engine = NoEngine /\ tasks[k].pc = "start" /\ Len(tasks') = Len(tasks)
                 /\ tasks'[k] # tasks[k]) =>
                   /\ tasks'[k].pc = "done"
                   /\ status_var' = "Engine not running. Analysis unavailable."
                   /\ after_queue' = after_queue
                   /\ thought_output' = thought_output
      ]_vars

\* The engine failed to start, a report was written all the same, and its
\* thread has ended with the status message and nothing queued.
C16_Witness ==
    /\ running /\ engine = NoEngine
    /\ reports = 1 /\ Len(tasks) = 1 /\ tasks[1].pc = "done"
    /\ status_var = "Engine not running. Analysis unavailable."
    /\ after_queue = <<>>
    /\ \E n \in 1..Len(thought_output) :
          thought_output[n].tag = "STEP 4: Strategic Analysis"

\* C17: a candidate whose SAN is not a legal move of self.board is skipped:
\* the step stores no evaluation and no calculation line for it and hands no
\* error to root.after; the thread goes on with the next candidate, which is
\* handed to the engine if it is legal and gets its evaluation; and after the
\* last candidate the thread goes on to the played move or delivers its
\* result to _update_analysis_output.
C17_IllegalCandidateSkipped ==
    [][ \A k \in 1..Len(tasks) :
          LET t == tasks[k]
              t2 == tasks'[k]
              delivered == IF t2.pc = "done" THEN after_queue'[Len(after_queue')] ELSE t2
          IN  (Len(tasks') = Len(tasks) /\ t2 # t) =>
                /\ t.pc = "candidates" =>
                      IF t.candidate_moves[t.i] \in answers.legal
                      THEN engine # NoEngine => t2.pc = "analyse_cand" /\ t2.i = t.i
                      ELSE /\ t2.pc = IF t.i < Len(t.candidate_moves) THEN "candidates"
                                      ELSE IF t.next_node # NoNode THEN "actual"
                                      ELSE "done"
                           /\ t2.pc = "candidates" => t2.i = t.i + 1
                           /\ t2.pc = "done" =>
                                 /\ Len(after_queue') = Len(after_queue) + 1
                                 /\ delivered.kind = "update"
                           /\ t2.pc # "done" => after_queue' = after_queue
                           /\ delivered.candidate_evaluations = t.candidate_evaluations
                           /\ delivered.candidate_lines = t.candidate_lines
                /\ (t.pc = "analyse_cand" /\ t.using \in procs) =>
                      /\ Len(delivered.candidate_evaluations)
                            = Len(t.candidate_evaluations) + 1
                      /\ delivered.candidate_evaluations[Len(delivered.candidate_evaluations)][1]
                            = t.candidate_moves[t.i]
      ]_vars

\* The thread was started with the candidates 1 and 2, the user went back to
\* the start, where 1 is not legal, and the thread has delivered its result
\* with an evaluation of 2 alone.
C17_Witness ==
    /\ Len(tasks) = 1 /\ tasks[1].pc = "done" /\ tasks[1].candidate_moves = <<1, 2>>
    /\ 1 \notin answers.legal
    /\ \E n \in 1..Len(after_queue) :
          /\ after_queue[n].kind = "update"
          /\ Len(after_queue[n].candidate_evaluations) = 1
          /\ after_queue[n].candidate_evaluations[1][1] = 2

\* C18: find_threats reports at most one forced mate, starting with the
\* first legal move that satisfies the forced-mate condition, and takes up no
\* first move after it.
C18_OneForcedMate ==
    reports = 1 =>
        LET legal == legal_moves(answers.moves)
            mates == SelectSeq(answers.threats, LAMBDA t : t.text = MateText)
            forcing == {i \in 1..Len(legal) : ForcesMate(legal[i])}
        IN  IF forcing = {}
            THEN mates = <<>>
            ELSE LET first == CHOOSE i \in forcing : \A j \in forcing : i <= j
                 IN  /\ mates = <<Threat(MateText, legal[first].san)>>
                     /\ ForcedMateScan(legal, 1).examined = first

\* Two legal moves force mate and a legal move stands before them.
C18_Witness ==
    /\ reports = 1
    /\ LET legal == legal_moves(answers.moves)
       IN  /\ Len(legal) >= 3 /\ ~ForcesMate(legal[1])
           /\ ForcesMate(legal[2]) /\ ForcesMate(legal[3])

\* C19: when the side to move is checkmated, find_threats reports the check,
\* generate_responses returns four empty buckets, and the report says under
\* step 2 that there is no response.
C19_CheckmateReport ==
    (reports = 1 /\ answers.in_check # "no" /\ legal_moves(answers.moves) = <<>>)
        => /\ \E k \in 1..Len(answers.threats) :
                 answers.threats[k].text \in {CheckText, CheckMateText}
           /\ \A c \in Range(Categories) : answers.responses[c] = <<>>
           /\ \E k \in 1..(Len(thought_output) - 1) :
                 /\ thought_output[k].tag = "STEP 2: Response Options"
                 /\ thought_output[k + 1].tag # "STEP 3: Tactical Signals or Targets?"

\* C20: phase selection. With n pieces on the board the advisor
\* (analyze_strategic_position) is in the Opening iff n > 28, in the Endgame
\* iff n < 12 and in the Middlegame otherwise; the header of step 2, shown
\* when there is no threat, says Opening iff n > 28 and the move number (the
\* half-moves played plus one, halved) is below 10, Endgame iff n < 12, else
\* Middlegame; the two agree on the Endgame and a header of Opening comes
\* with an advisor in the Opening.
C20_PhaseSelection ==
    LET n == answers.num_pieces
        number == (answers.before + board + 1) \div 2
        Written(tag) == \E k \in 1..Len(thought_output) : thought_output[k].tag = tag
        Exactly(tags, tag) == \A other \in tags : Written(other) <=> other = tag
        Ideas == {"You have developed minor pieces",
                  "Focus on piece coordination and active pieces",
                  "Activate your king in the endgame"}
        Headers == {"Current phase: Opening", "Current phase: Middlegame",
                    "Current phase: Endgame"}
    IN  (mode = "phase" /\ reports = 1) =>
          /\ Exactly(Ideas, IF n > 28 THEN "You have developed minor pieces"
                            ELSE IF n < 12 THEN "Activate your king in the endgame"
                            ELSE "Focus on piece coordination and active pieces")
          /\ Exactly(Headers, IF n > 28 /\ number < 10 THEN "Current phase: Opening"
                              ELSE IF n < 12 THEN "Current phase: Endgame"
                              ELSE "Current phase: Middlegame")
          /\ Written("Current phase: Endgame")
                <=> Written("Activate your king in the endgame")
          /\ Written("Current phase: Opening")
                => Written("You have developed minor pieces")

\* With more than 28 pieces at move 10 the header says Middlegame while the
\* advisor is in the Opening.
C20_Witness ==
    /\ mode = "phase" /\ reports = 1
    /\ answers.num_pieces = 29 /\ answers.before + board = 19
    /\ \E k \in 1..Len(thought_output) :
          thought_output[k].tag = "Current phase: Middlegame"
    /\ \E k \in 1..Len(thought_output) :
          thought_output[k].tag = "You have developed minor pieces"

\* C21: a verification thread works on one Position only: the Position its
\* call of engine.analyse for the root evaluation is made with is the
\* Position its candidate list was generated from.
C21_OnePositionPerTask ==
    \A k \in 1..Len(tasks) :
        tasks[k].root_board # NoNode => tasks[k].root_board = tasks[k].for

\* C22: a step of a verification thread never writes the report or the
\* status itself: every outcome reaches them through a callback handed to
\* root.after.
C22_ThreadWritesNothing ==
    [][ (Len(tasks') = Len(tasks) /\ tasks' # tasks) =>
            /\ status_var' = status_var
            /\ thought_output' = thought_output
      ]_vars

\* C23: a call of engine.analyse that raises (for the root, for a candidate
\* or for the played move) is not fatal to the thread: the evaluations and
\* lines stored so far are kept, no error is handed to root.after, and the
\* thread goes on or delivers its partial result to _update_analysis_output.
C23_EngineFailureNotFatal ==
    [][ \A k \in 1..Len(tasks) :
          LET t == tasks[k]
              t2 == tasks'[k]
              delivered == IF t2.pc = "done" THEN after_queue'[Len(after_queue')] ELSE t2
          IN  (/\ Len(tasks') = Len(tasks) /\ t2 # t
               /\ t.pc \in {"analyse_root", "analyse_cand", "analyse_actual"}
               /\ t.using \notin procs) =>
                /\ t2.pc = "done" =>
                      /\ Len(after_queue') = Len(after_queue) + 1
                      /\ delivered.kind = "update"
                /\ t2.pc # "done" => after_queue' = after_queue
                /\ delivered.candidate_evaluations = t.candidate_evaluations
                /\ delivered.candidate_lines = t.candidate_lines
      ]_vars

\* C24: a stored calculation line is bounded: after the candidate come at
\* most 5 plies of the principal variation; two consecutive quiet plies are
\* followed by the marker "(Position is now quiet)" and by nothing else; and
\* the marker stands nowhere but at the end, after two quiet plies.
C24_LineBounded ==
    LET Marker == "(Position is now quiet)"
        Bounded(line) ==
            LET n == Len(line)
                plies == {j \in 2..n : line[j].note # Marker}
            IN  /\ Cardinality(plies) <= 5
                /\ \A j \in 1..n :
                      line[j].note = Marker =>
                          /\ j = n /\ j >= 4
                          /\ line[j - 1].note = "quiet" /\ line[j - 2].note = "quiet"
                /\ \A j \in 2..(n - 1) :
                      (line[j].note = "quiet" /\ line[j + 1].note = "quiet") =>
                          /\ n = j + 2 /\ line[n].note = Marker
        AllBounded(lines) == \A m \in 1..Len(lines) : Bounded(lines[m][2])
    IN  /\ \A k \in 1..Len(tasks) : AllBounded(tasks[k].candidate_lines)
        /\ \A q \in 1..Len(after_queue) : AllBounded(after_queue[q].candidate_lines)

\* A line was delivered that holds the candidate, five plies of which the
\* fourth and the fifth are quiet, and the marker.
C24_Witness ==
    \E q \in 1..Len(after_queue) :
        \E m \in 1..Len(after_queue[q].candidate_lines) :
            LET line == after_queue[q].candidate_lines[m][2]
            IN  /\ Len(line) = 7
                /\ line[7].note = "(Position is now quiet)"
                /\ line[4].note # "quiet"

\* C25: find_threats runs the forced-material-win scan whenever the
\* forced-mate scan found no forced mate, whatever was reported before (a
\* Check record included): every first move that gives check and wins
\* material against every reply then has its record; and it skips the scan
\* when a forced mate was reported.
C25_MaterialScanGating ==
    reports = 1 =>
        LET legal == legal_moves(answers.moves)
            tactics == SelectSeq(answers.threats, LAMBDA t : t.text = TacticText)
            winning == SelectSeq(legal, LAMBDA m : m.gives_check /\ m.wins_material)
        IN  IF ForcedMateScan(legal, 1).threats = <<>>
            THEN tactics = [i \in 1..Len(winning) |-> Threat(TacticText, winning[i].san)]
            ELSE tactics = <<>>

\* C26: find_threats reports a forced mate starting with X if and only if X
\* is the first legal move that gives check and after every legal reply to
\* which a mating move exists; a first move that gives no check is never
\* reported, and a checking first move that leaves no reply (it is
\* checkmate) is.
C26_ForcedMateIff ==
    reports = 1 =>
        LET legal == legal_moves(answers.moves)
            Reported(san) == \E k \in 1..Len(answers.threats) :
                                 answers.threats[k] = Threat(MateText, san)
            Satisfies(i) == /\ legal[i].gives_check
                            /\ \A r \in 1..Len(legal[i].replies) : legal[i].replies[r]
        IN  \A i \in 1..Len(legal) :
                /\ Reported(legal[i].san)
                      <=> (Satisfies(i) /\ \A j \in 1..(i - 1) : ~Satisfies(j))
                /\ ~legal[i].gives_check => ~Reported(legal[i].san)

\* The forced mate reported starts with a move that is checkmate itself, and
\* a move without check, after which no reply exists either, stands before it.
C26_Witness ==
    /\ reports = 1
    /\ LET legal == legal_moves(answers.moves)
       IN  /\ Len(legal) >= 2
           /\ ~legal[1].gives_check /\ legal[1].replies = <<>>
           /\ legal[2].gives_check /\ legal[2].replies = <<>>
           /\ \E k \in 1..Len(answers.threats) :
                 answers.threats[k] = Threat(MateText, legal[2].san)

\* C27: generate_responses takes a threat into its Check branch only if it
\* is a Check record, a hanging or underdefended piece into the under-attack
\* branch and a fork into the fork branch; from forced-mate and material-win
\* records alone it returns no response.
C27_BranchSelection ==
    reports = 1 =>
        /\ \A k \in 1..Len(answers.threats) :
              LET threat == answers.threats[k]
              IN  /\ Branch(threat) = "check" => threat.text \in {CheckText, CheckMateText}
                  /\ threat.text \in {UndefendedText, UnderdefendedText}
                        => Branch(threat) = "under attack"
                  /\ threat.text = ForkText => Branch(threat) = "fork"
        /\ (\A k \in 1..Len(answers.threats) :
                answers.threats[k].text \in {MateText, TacticText})
              => \A c \in Range(Categories) : answers.responses[c] = <<>>

\* C28: the tactical sweep is unconditional: every move
\* analyze_tactical_position finds in the analysed Position is listed in the
\* report as a tactical candidate move and is a candidate handed to the
\* thread, whether or not find_tactical_signals found a signal.
C28_TacticalSweepUnconditional ==
    (reports = 1 /\ Len(tasks) = 1) =>
        \A j \in 1..Len(answers.tactical) :
            /\ \E k \in 1..Len(thought_output) :
                  /\ thought_output[k].tag = "tactical move"
                  /\ thought_output[k].san = answers.tactical[j]
            /\ Contains(tasks[1].candidate_moves, answers.tactical[j])

\* C29: the list find_threats returns is in detection order: the Check
\* record, then the hanging, underdefended and lower-value-attacker records,
\* then the knight forks, then the skewers, then the forced mate, then the
\* material wins.
C29_DetectionOrder ==
    reports = 1 =>
        LET Rank(text) ==
                CASE text \in {CheckText, CheckMateText} -> 1
                  [] text \in {UndefendedText, UnderdefendedText, LowerValueText} -> 2
                  [] text = ForkText -> 3
                  [] text = SkewerText -> 4
                  [] text = MateText -> 5
                  [] text = TacticText -> 6
        IN  \A i, j \in 1..Len(answers.threats) :
                i < j => Rank(answers.threats[i].text) <= Rank(answers.threats[j].text)

\* A list with a Check record, two hanging pieces, a fork, a skewer and a
\* forced mate.
C29_Witness ==
    /\ reports = 1
    /\ Len(answers.threats) = 6
    /\ answers.threats[1].text = CheckText
    /\ answers.threats[2].text = UndefendedText
    /\ answers.threats[4].text = ForkText
    /\ answers.threats[5].text = SkewerText
    /\ answers.threats[6].text = MateText

\* C30: the report displayed holds the engine sections at most once: the
\* heading of step 8, which every completed thread's update writes, stands
\* in it at most once, also when analysis was triggered again while an
\* earlier thread was pending.
C30_EngineSectionsOnce ==
    Cardinality({k \in 1..Len(thought_output) :
                    thought_output[k].tag = "STEP 8: Final Position Evaluation"}) <= 1

====
